---- MODULE Spec2Model ----
(***************************************************************************)
(* A model of logic/pipeline.cpp of opentrack: the lock-free flag word     *)
(* (bits), the scheduler loop (pipeline::run), the per-tick pose pipeline  *)
(* (pipeline::logic), the angle clamper (pipeline::clamp_value), the       *)
(* relative-translation state machine (reltrans::apply_pipeline), the      *)
(* centering pair (maybe_set_center_pose, apply_center) and the settings   *)
(* pipeline::apply_reltrans hands to the state machine.                    *)
(*                                                                         *)
(* Each part has its own specification over its own group of variables;    *)
(* the variables of the other groups are held at their initial values.     *)
(***************************************************************************)
EXTENDS Integers, Sequences, FiniteSets, TLC

VARIABLES
    \* ---- bits (flag word) ----
    b,          \* std::atomic<unsigned> b
    bpc,        \* per thread: "idle" | "read" | "cas"
    bop,        \* per thread: the call in progress [kind, flag, val]
    b_,         \* per thread: the local copy `unsigned b_(b)`
    ideal,      \* history variable: per flag, the calls applied in CAS order
    bpre,       \* history variable: the word when the last sequential call began
    bret,       \* history variable: the last call that returned (sequential use)
    \* ---- scheduler loop of pipeline::run ----
    backlog_time,   \* ns backlog_time (here in clock units)
    elapsed_nsecs,  \* const ns elapsed_nsecs of the current iteration
    sleep_time_ms,  \* the argument of portable::sleep
    spc,            \* "logic" | "accumulate"
    \* ---- pipeline::clamp_value ----
    cvpc,       \* "call": about to call clamp_value | "ret": it returned
    cv_in,      \* the argument of the call
    cv_out,     \* its result
    \* ---- reltrans ----
    cur,            \* bool cur: an interpolation is active
    in_zone,        \* bool in_zone: the zone of the last enabled call
    interp_pos,     \* euler_t interp_pos
    interp_timer,   \* Timer interp_timer: ms since its last start()
    rl_calls,       \* number of apply_pipeline calls made
    rl_mode,        \* history: the mode of the last call
    rl_in,          \* history: the pose passed to the last call
    rl_out,         \* history: the pose it returned
    rl_pre,         \* history: cur, in_zone, interp_pos when the last call began
    rl_started,     \* history: the last call started an interpolation
    rl_zone,        \* history: the zone the last non-disabled call computed:
                    \* "none" | "in" | "out"
    \* ---- pipeline: the worker (run, logic), a reader, the control thread ----
    flags,          \* the flag word of the pipeline (bits::b)
    mtx,            \* QMutex mtx: "free" | "worker" | "reader"
    output_pose,    \* Pose output_pose (one channel)
    raw_6dof,       \* Pose raw_6dof
    out_tick,       \* history: the tick that wrote output_pose
    raw_tick,       \* history: the tick that wrote raw_6dof
    newpose,        \* Pose newpose, the held raw pose
    tracking_started,
    t_center,       \* euler_t t_center
    rot_center,     \* rot_center of real_rotation and of scaled_rotation, each
                    \* rmat::eye() or the transpose of the rotation of a pose
    wpc,            \* the worker's position in run() and logic()
    l_value,        \* logic(): Pose value
    l_raw,          \* logic(): Pose raw
    l_tmp,          \* logic(): Pose tmp
    l_own_center,   \* logic(): own_center_logic
    l_center_ordered,   \* logic(): center_ordered
    l_en_p,         \* logic(): the value get(f_enabled_p) returned
    ticks,          \* number of calls of logic()
    log_line,       \* the columns written to the logger's current line
    tick_nan,       \* history: this tick went through the nan: label
    prev_output,    \* history: output_pose when this tick began
    sink,           \* the last pose given to libs.pProtocol->pose, if any
    interrupted,    \* QThread's interruption request
    curve_active,   \* tracking-active marks of spline_main and spline_alt
    rpc,            \* the reader's position in raw_and_mapped_pose
    rd_raw,         \* the reader's raw[]
    rd_mapped,      \* the reader's mapped[]
    ctl_ops,        \* number of calls by the control thread
    cfg,            \* settings: zero offset, invert, source of the channel
    center_req,     \* history: a set_center() call has not been acted on yet
    \* ---- centering: maybe_set_center_pose followed by apply_center ----
    cn_pc,      \* "call" | "set": maybe_set_center_pose returned | "ret"
    cn_in,      \* the pose passed to both calls
    cn_flag,    \* what get(f_center) returns in maybe_set_center_pose
    cn_own,     \* own_center_logic
    cn_inv,     \* opts.invert of the six axes
    cn_frame,   \* scaled_rotation, real_rotation, t_center
    cn_out,     \* the result of apply_center
    \* ---- pipeline::apply_reltrans ----
    rt_pc,      \* "call" | "ret"
    rt_set,     \* the reltrans_disable_* settings
    rt_in,      \* the pose passed to apply_reltrans
    rt_angles,  \* the angles euler_to_rmat was given
    rt_mask,    \* the disable mask rotate was given
    rt_out      \* the pose apply_reltrans returned

bitsVars == <<b, bpc, bop, b_, ideal, bpre, bret>>

schedVars == <<backlog_time, elapsed_nsecs, sleep_time_ms, spc>>

clampVars == <<cvpc, cv_in, cv_out>>

relVars ==
    <<cur, in_zone, interp_pos, interp_timer, rl_calls, rl_mode, rl_in, rl_out, rl_pre,
      rl_started, rl_zone>>

pipeVars ==
    <<flags, mtx, output_pose, raw_6dof, out_tick, raw_tick, newpose,
      tracking_started, t_center, rot_center, wpc, l_value, l_raw, l_tmp, l_own_center, l_center_ordered, l_en_p,
      ticks, log_line, tick_nan, prev_output, sink, interrupted, curve_active, rpc, rd_raw,
      rd_mapped, ctl_ops, cfg, center_req>>

centerVars == <<cn_pc, cn_in, cn_flag, cn_own, cn_inv, cn_frame, cn_out>>

rtVars == <<rt_pc, rt_set, rt_in, rt_angles, rt_mask, rt_out>>

vars == <<bitsVars, schedVars, clampVars, relVars, pipeVars, centerVars, rtVars>>

\* pose channels
TX == 1
TY == 2
TZ == 3
Yaw == 4
Pitch == 5
Roll == 6

ZeroPose == <<0, 0, 0, 0, 0, 0>>

Abs(x) == IF x < 0 THEN -x ELSE x

(***************************************************************************)
(* Unsigned arithmetic of the flag word.                                   *)
(***************************************************************************)

\* Width of `unsigned` in the model (the standard guarantees at least 16 bits;
\* the four flags live in the low bits).
UnsignedBits == 16

UnsignedMod == 2 ^ UnsignedBits

\* enum flags of bits (declared in pipeline.hpp): one bit each.
f_center == 1
f_enabled_h == 2
f_enabled_p == 4
f_zero == 8

Flags == {f_center, f_enabled_h, f_enabled_p, f_zero}

RECURSIVE BitAnd(_, _)
BitAnd(x, y) ==
    IF x = 0 \/ y = 0 THEN 0
    ELSE (x % 2) * (y % 2) + 2 * BitAnd(x \div 2, y \div 2)

RECURSIVE BitOr(_, _)
BitOr(x, y) ==
    IF x = 0 THEN y
    ELSE IF y = 0 THEN x
    ELSE (IF x % 2 = 1 \/ y % 2 = 1 THEN 1 ELSE 0) + 2 * BitOr(x \div 2, y \div 2)

RECURSIVE BitXor(_, _)
BitXor(x, y) ==
    IF x = 0 THEN y
    ELSE IF y = 0 THEN x
    ELSE ((x + y) % 2) + 2 * BitXor(x \div 2, y \div 2)

\* ~x on an unsigned
BitNot(x) == (UnsignedMod - 1) - x

BoolToUnsigned(v) == IF v THEN 1 ELSE 0

\* a set() that forgets to clear the bit first: it can only raise a flag
SetWordNoClear(w, flag, val) ==
    BitOr(w, (flag * BoolToUnsigned(val)) % UnsignedMod)

\* bits::set: the word stored by the compare-exchange,
\* unsigned((b_ & ~flag) | (flag * val))
SetWord(w, flag, val) ==
    BitOr(BitAnd(w, BitNot(flag)), (flag * BoolToUnsigned(val)) % UnsignedMod)

\* bits::negate: the word stored by the compare-exchange, b_ ^ flag
NegateWord(w, flag) == BitXor(w, flag)

\* bits::get: !!(b & flag)
GetFlag(w, flag) == BitAnd(w, flag) # 0

\* the word an operation stores, computed from the local copy
NewWord(op, w) ==
    IF op.kind = "set" THEN SetWord(w, op.flag, op.val) ELSE NegateWord(w, op.flag)

\* bits::bits(): b(0u), then four set() calls
CtorWord ==
    SetWord(SetWord(SetWord(SetWord(0, f_center, TRUE), f_enabled_p, TRUE),
                    f_enabled_h, TRUE), f_zero, FALSE)

\* a compare-exchange that stores without comparing (a plain store)
CasBlind(word, expected) == TRUE

\* compare_exchange_weak may succeed only when the word still equals the
\* expected value
CasMaySucceed(word, expected) == word = expected

Threads == {"control", "worker"}

BitOps ==
    [kind : {"set"}, flag : Flags, val : BOOLEAN]
        \cup [kind : {"negate"}, flag : Flags, val : {FALSE}]

NoOp == [kind |-> "none", flag |-> 0, val |-> FALSE]

FlagWords == 0 .. (f_center + f_enabled_h + f_enabled_p + f_zero)

\* what the calls mean, flag by flag
IdealApply(op, f, old) ==
    IF op.flag # f THEN old
    ELSE IF op.kind = "set" THEN op.val ELSE ~old

(***************************************************************************)
(* The arithmetic of the scheduler loop of pipeline::run.  Durations are   *)
(* counted in clock units, UnitsPerMs to the millisecond (the code counts  *)
(* nanoseconds).                                                           *)
(***************************************************************************)

\* resolution of the model's clock: clock units in a millisecond
UnitsPerMs == 4

\* constexpr ns const_sleep_ms(time_cast<ns>(ms(4)))
const_sleep_ms == 4

\* secs_(3), the backlog limit
BacklogLimitSecs == 3

\* ms(10), the longest sleep
MaxSleepMs == 10

\* the longest pause of one iteration the model draws, in seconds
MaxElapsedSecs == 4

Ms(n) == n * UnitsPerMs

Secs(n) == n * 1000 * UnitsPerMs

\* the elapsed times one iteration can measure
ElapsedSet ==
    {0, Ms(4), Ms(4) + 1, Ms(15)}
        \cup {Secs(k) + Ms(4) : k \in 1 .. MaxElapsedSecs}

\* a clamp that forgets the upper limit
ClampNoMax(x, lo, hi) == IF x < lo THEN lo ELSE x

\* clamp(x, lo, hi) of compat/math.hpp
Clamp(x, lo, hi) == IF x < lo THEN lo ELSE IF x > hi THEN hi ELSE x

\* time_cast<ms>(d).count(): a duration_cast, which truncates toward zero
TimeCastMs(d) == IF d >= 0 THEN d \div UnitsPerMs ELSE -((-d) \div UnitsPerMs)

\* the sleep of one iteration, from the backlog just accumulated
SleepTimeNoMax(bl) ==
    TimeCastMs(ClampNoMax(Ms(const_sleep_ms) - bl, 0, Ms(MaxSleepMs)))

\* time_cast<ms>(clamp(const_sleep_ms - backlog_time, ms::zero(), ms(10))).count()
SleepTime(bl) ==
    TimeCastMs(Clamp(Ms(const_sleep_ms) - bl, 0, Ms(MaxSleepMs)))

\* a loop that never resets the backlog
BacklogOverflowNever(bl) == FALSE

\* backlog_time > secs_(3) || backlog_time < secs_(-3)
BacklogOverflow(bl) == bl > Secs(BacklogLimitSecs) \/ bl < Secs(-BacklogLimitSecs)

(***************************************************************************)
(* pipeline::clamp_value.  Angles are counted in hundredths of a degree.   *)
(***************************************************************************)

\* resolution of the model's angles: units in a degree
AngleScale == 100

Deg(d) == d * AngleScale

\* the 1e-2 of `fabs(x) - 1e-2 > 180`
ClampEps == AngleScale \div 100

\* std::fmod: the remainder has the sign of the dividend
Fmod(x, m) == IF x >= 0 THEN x % m ELSE -((-x) % m)

\* std::copysign(mag, x), x an integer (no negative zero)
CopySign(mag, x) == IF x >= 0 THEN mag ELSE -mag

\* a clamper that always re-wraps and never clamps
ClampAngleAlwaysWrap(a) ==
    LET x == Fmod(a, Deg(360))
    IN Fmod(x + CopySign(Deg(180), x), Deg(360)) - CopySign(Deg(180), x)

\* the body of the loop of clamp_value for one rotation channel
ClampAngle(a) ==
    LET x == Fmod(a, Deg(360))
    IN IF Abs(x) - ClampEps > Deg(180)
       THEN Fmod(x + CopySign(Deg(180), x), Deg(360)) - CopySign(Deg(180), x)
       ELSE Clamp(x, Deg(-180), Deg(180))

\* pipeline::clamp_value: for (unsigned i = 3; i < 6; i++) ...
clamp_value(value) ==
    [i \in 1 .. 6 |-> IF i >= Yaw THEN ClampAngle(value[i]) ELSE value[i]]

\* the inputs drawn for clamp_value: multiples of 90 degrees up to MaxTurns
\* full turns, the examples 181 and -185, each with its neighbours within
\* two hundredths
MaxTurns == 2

ClampNear == 2

ClampAngles ==
    {Deg(d) + e : d \in {90 * k : k \in (-4 * MaxTurns) .. (4 * MaxTurns)}
                          \cup {181, -185},
                  e \in (-ClampNear) .. ClampNear}

ClampOtherAngles == {Deg(-180), 0, Deg(181)}

ClampTranslations == {<<0, 0, 0>>, <<250, -7, 36000>>, <<-18000, 18001, -36100>>}

ClampInputs ==
    {t \o <<y, p, r>> : t \in ClampTranslations, y \in ClampAngles,
                        p \in ClampOtherAngles, r \in ClampOtherAngles}
        \cup {t \o <<p, y, r>> : t \in ClampTranslations, y \in ClampAngles,
                                 p \in {0}, r \in {Deg(-180)}}
        \cup {t \o <<p, r, y>> : t \in ClampTranslations, y \in ClampAngles,
                                 p \in {Deg(181)}, r \in {0}}

(***************************************************************************)
(* reltrans.  Translations are counted in units of 1/PosScale, angles in   *)
(* hundredths of a degree at multiples of 90 degrees (whose sines and      *)
(* cosines are integers), time in milliseconds.                            *)
(***************************************************************************)

\* resolution of the model's translations: units in one tracker unit
PosScale == 100

\* constexpr double RC = .1 (seconds), in milliseconds
RelRC == 100

\* constexpr double eps = .05
RelEps == PosScale \div 20

\* std::fabs(value(Yaw)) < 50
YawZone == 50

\* std::fabs(value(Pitch)) < 40
PitchZone == 40

Vec3Zero == <<0, 0, 0>>

\* number of apply_pipeline calls of one run of the model
MaxRelCalls == 3

RelModes == {"reltrans_disabled", "reltrans_enabled", "reltrans_non_center"}

\* sin and cos of a multiple of 90 degrees
SinDeg(a) ==
    LET q == (a \div Deg(90)) % 4
    IN IF q = 1 THEN 1 ELSE IF q = 3 THEN -1 ELSE 0

CosDeg(a) ==
    LET q == (a \div Deg(90)) % 4
    IN IF q = 0 THEN 1 ELSE IF q = 2 THEN -1 ELSE 0

\* euler_to_rmat of compat/euler.cpp, e = (yaw, pitch, roll): the identity at
\* zero angles, an orthonormal matrix at every multiple of 90 degrees
euler_to_rmat(e) ==
    LET cx == CosDeg(e[3])
        sx == SinDeg(e[3])
        cy == CosDeg(e[2])
        sy == SinDeg(e[2])
        cz == CosDeg(e[1])
        sz == SinDeg(e[1])
    IN << <<cy * cz, -(cy * sz), sy>>,
          <<cz * sx * sy + cx * sz, cx * cz - sx * sy * sz, -(cy * sx)>>,
          <<sx * sz - cx * cz * sy, cz * sx + cx * sy * sz, cx * cy>> >>

\* R * v
MatVec(R, v) ==
    [i \in 1 .. 3 |-> R[i][1] * v[1] + R[i][2] * v[2] + R[i][3] * v[3]]

\* a rotate that forgets the change of handedness (no sign changes)
rotateNoSign(R, in, disable) ==
    LET ret == MatVec(R, <<in[TZ], in[TX], in[TY]>>)
    IN << IF disable[TX] THEN in[TX] ELSE -ret[2],
          IF disable[TY] THEN in[TY] ELSE -ret[3],
          IF disable[TZ] THEN in[TZ] ELSE ret[1] >>

\* reltrans::rotate; tb_Z, tb_X, tb_Y are the rows 1, 2, 3 of the product
rotate(R, in, disable) ==
    LET ret == MatVec(R, <<in[TZ], -in[TX], -in[TY]>>)
    IN << IF disable[TX] THEN in[TX] ELSE -ret[2],
          IF disable[TY] THEN in[TY] ELSE -ret[3],
          IF disable[TZ] THEN in[TZ] ELSE ret[1] >>

\* a quotient rounded to the nearest unit, den > 0
RoundDiv(num, den) == (2 * num + den) \div (2 * den)

\* interp_pos * (1-alpha) + rel * alpha with alpha = dt/(dt+RC)
Blend(ip, rel, dt) ==
    [i \in 1 .. 3 |-> RoundDiv(ip[i] * RelRC + rel[i] * dt, dt + RelRC)]

\* the zone test of apply_pipeline
ZoneOf(mode, value) ==
    IF mode = "reltrans_non_center"
    THEN ~(Abs(value[Yaw]) < Deg(YawZone) /\ Abs(value[Pitch]) < Deg(PitchZone))
    ELSE TRUE

\* a start test that ignores the zones
StartsInterpNoZone(c, z0, z1) == ~c

\* if (!cur && in_zone != tcomp_in_zone_)
StartsInterp(c, z0, z1) == ~c /\ z0 # z1

\* value(k) * d2r * !disable(k)
MaskAngle(value, disable, k) == IF disable[k] THEN 0 ELSE value[k]

\* the angles euler_to_rmat is given: value(Yaw), value(Pitch), value(Roll),
\* each times !disable of the same index
RelAngles(value, disable) ==
    <<MaskAngle(value, disable, Yaw),
      MaskAngle(value, disable, Pitch),
      MaskAngle(value, disable, Roll)>>

\* the mask rotate is given: &disable[TX], the three entries from TX on
RelMask(disable) == <<disable[TX], disable[TY], disable[TZ]>>

\* a disabled branch that also forgets the interpolated position
RelDisabledReset(st, value) ==
    [cur |-> FALSE, in_zone |-> FALSE, interp_pos |-> Vec3Zero,
     timer |-> st.timer, out |-> value, started |-> FALSE]

\* reltrans::apply_pipeline, the branch state == reltrans_disabled
RelDisabled(st, value) ==
    [cur |-> FALSE, in_zone |-> FALSE, interp_pos |-> st.interp_pos,
     timer |-> st.timer, out |-> value, started |-> FALSE]

\* reltrans::apply_pipeline, the branch state != reltrans_disabled;
\* st.timer is what interp_timer.elapsed_seconds() would return on entry
RelEnabled(st, mode, value, disable) ==
    LET zone == ZoneOf(mode, value)
        start == StartsInterp(st.cur, st.in_zone, zone)
        cur1 == st.cur \/ start
        timer1 == IF start THEN 0 ELSE st.timer
        rel0 == <<value[TX], value[TY], value[TZ]>>
        rel1 == IF zone
                THEN rotate(euler_to_rmat(RelAngles(value, disable)), rel0, RelMask(disable))
                ELSE rel0
        ip == IF cur1 THEN Blend(st.interp_pos, rel1, timer1) ELSE rel1
        delta == Abs(rel1[1] - ip[1]) + Abs(rel1[1] - ip[1]) + Abs(rel1[1] - ip[1])
        rel2 == IF cur1 THEN ip ELSE rel1
    IN [cur |-> cur1 /\ ~(delta < RelEps),
        in_zone |-> zone,
        interp_pos |-> ip,
        timer |-> IF cur1 THEN 0 ELSE timer1,
        out |-> <<rel2[1], rel2[2], rel2[3], value[Yaw], value[Pitch], value[Roll]>>,
        started |-> start]

\* reltrans::apply_pipeline
apply_pipeline(st, mode, value, disable) ==
    IF mode # "reltrans_disabled"
    THEN RelEnabled(st, mode, value, disable)
    ELSE RelDisabled(st, value)

\* the inputs drawn for apply_pipeline
RelTranslations == {<<0, 0, 0>>, <<20, 0, 0>>, <<0, 30, 0>>}

RelRotations == {<<0, 0, 0>>, <<Deg(90), 0, 0>>, <<0, Deg(90), 0>>}

RelPoses == {t \o r : t \in RelTranslations, r \in RelRotations}

NoDisable == [i \in 1 .. 6 |-> FALSE]

RelDisables == {NoDisable, [NoDisable EXCEPT ![TX] = TRUE], [NoDisable EXCEPT ![Yaw] = TRUE]}

\* milliseconds between two calls
RelDts == {4, 300}

(***************************************************************************)
(* pipeline::logic and pipeline::run.  The tick is modelled for one        *)
(* translation channel of the pose, the head unrotated (every rotation     *)
(* matrix is the identity), reltrans and the neck disabled.  The tracker,  *)
(* the filter and the curves are collaborators: they return the value they *)
(* were given, some other sample, or NaN.                                  *)
(***************************************************************************)

\* number of ticks and of control calls of one run of the model
MaxTicks == 2

MaxCtlOps == 1

\* the samples the tracker returns
TrackerSamples == {0, 1}

\* the source index that disables a channel: disabled(i) = k == 6
SrcDisabled == 6

\* Pose(): a default-constructed pose channel
PoseDefault == 0

\* what libs.pTracker->data, the filter and a curve can return
Finite(v) == [fin |-> TRUE, v |-> v]

NaNValue == [fin |-> FALSE, v |-> 0]

\* is_nan: FP_NAN or FP_INFINITE
is_nan(r) == ~r.fin

TrackerData == {Finite(v) : v \in TrackerSamples} \cup {NaNValue}

\* the filter and the curves: the identity, or a corrupted result
Collaborator(v) == {Finite(v), NaNValue}

\* the settings the model draws: the channel's zero offset (opts.zero), its
\* invert flag (opts.invert) and its source (opts.src)
Configs ==
    {[zero |-> 0, invert |-> FALSE, src |-> 0],
     [zero |-> 1, invert |-> FALSE, src |-> 0],
     [zero |-> 1, invert |-> TRUE, src |-> 0],
     [zero |-> 0, invert |-> FALSE, src |-> SrcDisabled]}

\* get_selected_axis_value for channel 0: value(i) = newpose(k), or 0
SelectedValue(c, np) == IF c.src < 0 \/ c.src >= 6 THEN 0 ELSE np

\* maybe_set_center_pose: the centering branch
CenterPose(tc, val, own) == IF own THEN 0 ELSE val

\* rmat::eye() as a rot_center
RotEye == [eye |-> TRUE, of |-> PoseDefault]

\* rotation.t(), the rotation being the one computed from the pose val
RotTransposeOf(val) == [eye |-> FALSE, of |-> val]

\* rot_center before the first centering
RotCenterStart == [real |-> RotEye, scaled |-> RotEye]

\* a centering branch that leaves the two rot_center alone
CenterRotKeep(rc, val, own) == rc

\* maybe_set_center_pose: the centering branch, the two rot_center
CenterRot(rc, val, own) ==
    IF own
    THEN [real |-> RotEye, scaled |-> RotEye]
    ELSE [real |-> RotTransposeOf(val), scaled |-> RotTransposeOf(val)]

\* a test that needs both flags set
EnabledTestBoth(p, h) == p /\ h

\* get(f_enabled_p) ^ !get(f_enabled_h)
EnabledTest(p, h) == p # ~h

\* the header run() writes: datachannels
LogHeader == <<"dt", "raw", "corrected", "filtered", "mapped">>

\* apply_center for a translation channel, rot_center the identity
apply_center(c, tc, val) == IF c.invert THEN -(val - tc) ELSE val - tc

\* apply_reltrans with reltrans and the neck disabled
apply_reltrans(c, val) == IF c.src = SrcDisabled THEN 0 ELSE val

\* apply_zero_pos: value(i) += m(i).opts.zero * (m(i).opts.invert ? -1 : 1)
apply_zero_pos(c, val) == val + c.zero * (IF c.invert THEN -1 ELSE 1)

\* pipeline::map: which curve is marked tracking-active (opts.altp set)
MapMarks(pos) == [main |-> ~(pos < 0), alt |-> pos < 0]

CurvesInactive == [main |-> FALSE, alt |-> FALSE]

\* a loop that ignores the interruption request
RunLoopForever(req) == TRUE

\* while (!isInterruptionRequested())
RunLoopTest(req) == ~req

\* a lock that excludes nobody
MutexAlwaysFree(owner) == TRUE

\* QMutexLocker: the mutex can be taken
MutexFree(owner) == owner = "free"

\* the reader's arrays before a call has filled them
NoRead == [v |-> PoseDefault, tick |-> 0]

\* the flag words set_enabled and toggle_enabled calls can leave before the
\* worker starts
EnabledWords ==
    {SetWord(SetWord(CtorWord, f_enabled_p, p), f_enabled_h, h) : p, h \in BOOLEAN}

\* set_center(): set(f_center, true)
SetCenterOp == [kind |-> "set", flag |-> f_center, val |-> TRUE]

\* the calls the control thread makes: set_center, set_enabled, set_zero,
\* toggle_zero, toggle_enabled
CtlOps ==
    {SetCenterOp}
        \cup [kind : {"set"}, flag : {f_enabled_h, f_zero}, val : BOOLEAN]
        \cup [kind : {"negate"}, flag : {f_zero, f_enabled_p}, val : {FALSE}]

(***************************************************************************)
(* Centering: maybe_set_center_pose and apply_center on whole poses.  A    *)
(* rotation matrix is kept as a term: the identity, the matrix             *)
(* euler_to_rmat made from given angles in the scaled or in the unscaled   *)
(* frame, or the transpose of such a matrix.  A matrix times its transpose *)
(* is the identity (the matrices are orthonormal); a product the terms do  *)
(* not determine is kept as "other".                                       *)
(***************************************************************************)

\* vec3_bool(): no axis disabled
NoMask3 == <<FALSE, FALSE, FALSE>>

\* rmat::eye()
EyeM == [k |-> "eye", e |-> Vec3Zero, s |-> "none"]

\* a matrix the terms do not determine
OtherM == [k |-> "other", e |-> Vec3Zero, s |-> "none"]

\* euler_to_rmat(c_div * tmp) for s = "scaled", euler_to_rmat(tmp) for
\* s = "real"; e is tmp in degrees
RotM(e, s) == IF e = Vec3Zero THEN EyeM ELSE [k |-> "rot", e |-> e, s |-> s]

\* a transposition that returns its argument
TransposeNone(m) == m

\* rmat::t()
TransposeM(m) ==
    IF m.k = "rot" THEN [m EXCEPT !.k = "rotT"]
    ELSE IF m.k = "rotT" THEN [m EXCEPT !.k = "rot"]
    ELSE m

\* operator* of two rmat
MulM(m1, m2) ==
    IF m1.k = "eye" THEN m2
    ELSE IF m2.k = "eye" THEN m1
    ELSE IF m1.e = m2.e /\ m1.s = m2.s /\ {m1.k, m2.k} = {"rot", "rotT"} THEN EyeM
    ELSE OtherM

\* r2d * c_mult * rmat_to_euler(m) for a matrix of the scaled frame, in
\* degrees; exact is FALSE where the terms do not determine the angles
ScaledEuler(m) ==
    IF m.k = "eye" THEN [exact |-> TRUE, e |-> Vec3Zero]
    ELSE IF m.k = "rot" /\ m.s = "scaled" THEN [exact |-> TRUE, e |-> m.e]
    ELSE [exact |-> FALSE, e |-> Vec3Zero]

\* the transpose of a 3x3 matrix of numbers
MatT(R) == [i \in 1 .. 3 |-> [j \in 1 .. 3 |-> R[j][i]]]

\* the numbers of a matrix of the unscaled frame
RealMat(m) ==
    CASE m.k = "eye" -> euler_to_rmat(Vec3Zero)
      [] m.k = "rot" -> euler_to_rmat(m.e)
      [] m.k = "rotT" -> MatT(euler_to_rmat(m.e))

\* the members before the first centering
CenterFrameStart ==
    [scaled |-> [rotation |-> EyeM, rot_center |-> EyeM],
     real |-> [rotation |-> EyeM, rot_center |-> EyeM],
     t_center |-> Vec3Zero]

\* a centering that forgets the translation of the pose
CenterOffsetNone(value) == Vec3Zero

\* t_center = { (double*)value }: the first three entries of the pose
CenterOffset(value) == <<value[TX], value[TY], value[TZ]>>

\* pipeline::maybe_set_center_pose; flag is what get(f_center) returns
maybe_set_center_pose(fr, value, flag, own_center_logic) ==
    LET tmp == <<value[Yaw], value[Pitch], value[Roll]>>
        sr == RotM(tmp, "scaled")
        rr == RotM(tmp, "real")
    IN IF ~flag
       THEN [fr EXCEPT !.scaled.rotation = sr, !.real.rotation = rr]
       ELSE IF own_center_logic
       THEN [scaled |-> [rotation |-> sr, rot_center |-> EyeM],
             real |-> [rotation |-> rr, rot_center |-> EyeM],
             t_center |-> Vec3Zero]
       ELSE [scaled |-> [rotation |-> sr, rot_center |-> TransposeM(sr)],
             real |-> [rotation |-> rr, rot_center |-> TransposeM(rr)],
             t_center |-> CenterOffset(value)]

\* pipeline::apply_center on a whole pose; inv is opts.invert of the axes
apply_center_pose(fr, value, inv) ==
    LET rotation == MulM(fr.scaled.rotation, fr.scaled.rot_center)
        pos0 == [i \in 1 .. 3 |-> value[i] - fr.t_center[i]]
        rot0 == ScaledEuler(rotation)
        pos1 == rotate(RealMat(fr.real.rot_center), pos0, NoMask3)
    IN [pos |-> [i \in 1 .. 3 |-> IF inv[i] THEN -pos1[i] ELSE pos1[i]],
        rot |-> [i \in 1 .. 3 |-> IF inv[i + 3] THEN -rot0.e[i] ELSE rot0.e[i]],
        exact |-> rot0.exact]

CenterOutStart == [pos |-> Vec3Zero, rot |-> Vec3Zero, exact |-> TRUE]

\* the invert settings drawn
CenterInverts ==
    {NoDisable, [NoDisable EXCEPT ![TX] = TRUE], [NoDisable EXCEPT ![Yaw] = TRUE],
     [i \in 1 .. 6 |-> TRUE]}

(***************************************************************************)
(* The states in which a part of the program is idle.                      *)
(***************************************************************************)

IdleBits ==
    /\ b = CtorWord
    /\ bpc = [t \in Threads |-> "idle"]
    /\ bop = [t \in Threads |-> NoOp]
    /\ b_ = [t \in Threads |-> 0]
    /\ ideal = [f \in Flags |-> GetFlag(CtorWord, f)]
    /\ bpre = 0
    /\ bret = NoOp

IdleSched ==
    /\ backlog_time = 0
    /\ elapsed_nsecs = 0
    /\ sleep_time_ms = 0
    /\ spc = "logic"

IdleClamp ==
    /\ cvpc = "call"
    /\ cv_in = ZeroPose
    /\ cv_out = ZeroPose

IdleCenter ==
    /\ cn_pc = "call"
    /\ cn_in = ZeroPose
    /\ cn_flag = FALSE
    /\ cn_own = FALSE
    /\ cn_inv = NoDisable
    /\ cn_frame = CenterFrameStart
    /\ cn_out = CenterOutStart

IdleRt ==
    /\ rt_pc = "call"
    /\ rt_set = NoDisable
    /\ rt_in = ZeroPose
    /\ rt_angles = Vec3Zero
    /\ rt_mask = NoMask3
    /\ rt_out = ZeroPose

\* reltrans::reltrans(): the members' initial values
IdleRel ==
    /\ cur = FALSE
    /\ in_zone = FALSE
    /\ interp_pos = Vec3Zero
    /\ interp_timer = 0
    /\ rl_calls = 0
    /\ rl_mode = "none"
    /\ rl_in = ZeroPose
    /\ rl_out = ZeroPose
    /\ rl_pre = [cur |-> FALSE, in_zone |-> FALSE, interp_pos |-> Vec3Zero]
    /\ rl_started = FALSE
    /\ rl_zone = "none"

\* pipeline::pipeline(): the members' initial values, the worker not started
PipeStartFlags(c, w) ==
    /\ flags = w
    /\ mtx = "free"
    /\ output_pose = PoseDefault
    /\ raw_6dof = PoseDefault
    /\ out_tick = 0
    /\ raw_tick = 0
    /\ newpose = PoseDefault
    /\ tracking_started = FALSE
    /\ t_center = PoseDefault
    /\ rot_center = RotCenterStart
    /\ wpc = "r_top"
    /\ l_value = PoseDefault
    /\ l_raw = PoseDefault
    /\ l_tmp = PoseDefault
    /\ l_own_center = FALSE
    /\ l_center_ordered = FALSE
    /\ l_en_p = FALSE
    /\ ticks = 0
    /\ log_line = <<>>
    /\ tick_nan = FALSE
    /\ prev_output = PoseDefault
    /\ sink = <<>>
    /\ interrupted = FALSE
    /\ curve_active = CurvesInactive
    /\ rpc = "idle"
    /\ rd_raw = NoRead
    /\ rd_mapped = NoRead
    /\ ctl_ops = 0
    /\ cfg = c
    /\ center_req = FALSE

PipeStart(c) == PipeStartFlags(c, CtorWord)

IdlePipe == PipeStart([zero |-> 0, invert |-> FALSE, src |-> 0])

(***************************************************************************)
(* bits::set / bits::negate called from several threads.                   *)
(***************************************************************************)

BitsOnly == UNCHANGED <<schedVars, clampVars, relVars, pipeVars, centerVars, rtVars>>

InitBits == IdleBits /\ IdleSched /\ IdleCenter /\ IdleRt /\ IdleClamp /\ IdleRel /\ IdlePipe

\* a thread enters set(flag, val) or negate(flag)
BitsCall(t) ==
    /\ bpc[t] = "idle"
    /\ \E op \in BitOps : bop' = [bop EXCEPT ![t] = op]
    /\ bpc' = [bpc EXCEPT ![t] = "read"]
    /\ UNCHANGED <<b, b_, ideal>>
    /\ BitsOnly

\* unsigned b_(b);
BitsRead(t) ==
    /\ bpc[t] = "read"
    /\ b_' = [b_ EXCEPT ![t] = b]
    /\ bpc' = [bpc EXCEPT ![t] = "cas"]
    /\ UNCHANGED <<b, bop, ideal>>
    /\ BitsOnly

\* b.compare_exchange_weak(b_, new) succeeds: store and return from the call
BitsCasOk(t) ==
    /\ bpc[t] = "cas"
    /\ CasMaySucceed(b, b_[t])
    /\ b' = NewWord(bop[t], b_[t])
    /\ ideal' = [f \in Flags |-> IdealApply(bop[t], f, ideal[f])]
    /\ bpc' = [bpc EXCEPT ![t] = "idle"]
    /\ bop' = [bop EXCEPT ![t] = NoOp]
    /\ b_' = [b_ EXCEPT ![t] = 0]
    /\ BitsOnly

\* the compare-exchange fails (the word changed, or spuriously; b_ is reloaded
\* with the current word): loop again
BitsCasFail(t) ==
    /\ bpc[t] = "cas"
    /\ bpc' = [bpc EXCEPT ![t] = "read"]
    /\ b_' = [b_ EXCEPT ![t] = b]
    /\ UNCHANGED <<b, bop, ideal>>
    /\ BitsOnly

NextBits ==
    \E t \in Threads :
        \/ BitsCall(t) /\ UNCHANGED <<bpre, bret>>
        \/ BitsRead(t) /\ UNCHANGED <<bpre, bret>>
        \/ BitsCasOk(t) /\ UNCHANGED <<bpre, bret>>
        \/ BitsCasFail(t) /\ UNCHANGED <<bpre, bret>>

SpecBits == InitBits /\ [][NextBits]_vars

(***************************************************************************)
(* The same calls with no concurrent writer: one thread, any initial word. *)
(***************************************************************************)

InitBitsSeq ==
    /\ b \in FlagWords
    /\ bpc = [t \in Threads |-> "idle"]
    /\ bop = [t \in Threads |-> NoOp]
    /\ b_ = [t \in Threads |-> 0]
    /\ ideal = [f \in Flags |-> GetFlag(b, f)]
    /\ bpre = b
    /\ bret = NoOp
    /\ IdleSched /\ IdleCenter /\ IdleRt
    /\ IdleClamp
    /\ IdleRel
    /\ IdlePipe

SeqCall == BitsCall("control") /\ bpre' = b /\ bret' = NoOp

SeqRead == BitsRead("control") /\ UNCHANGED <<bpre, bret>>

SeqCasOk == BitsCasOk("control") /\ bret' = bop["control"] /\ UNCHANGED bpre

SeqCasFail == BitsCasFail("control") /\ UNCHANGED <<bpre, bret>>

NextBitsSeq == SeqCall \/ SeqRead \/ SeqCasOk \/ SeqCasFail

SpecBitsSeq == InitBitsSeq /\ [][NextBitsSeq]_vars

(***************************************************************************)
(* The scheduler loop of pipeline::run.                                    *)
(***************************************************************************)

SchedOnly == UNCHANGED <<bitsVars, clampVars, relVars, pipeVars, centerVars, rtVars>>

InitSched == IdleBits /\ IdleSched /\ IdleCenter /\ IdleRt /\ IdleClamp /\ IdleRel /\ IdlePipe

\* logic(); elapsed_nsecs = prog1(t.elapsed<ns>(), t.start()); then the
\* overflow test on the backlog carried in from the last iteration
SchedTick ==
    /\ spc = "logic"
    /\ \E e \in ElapsedSet : elapsed_nsecs' = e
    /\ backlog_time' = IF BacklogOverflow(backlog_time) THEN 0 ELSE backlog_time
    /\ spc' = "accumulate"
    /\ UNCHANGED sleep_time_ms
    /\ SchedOnly

\* backlog_time += elapsed_nsecs - const_sleep_ms; the sleep is computed from
\* the new backlog and passed to portable::sleep
SchedSleep ==
    /\ spc = "accumulate"
    /\ backlog_time' = backlog_time + (elapsed_nsecs - Ms(const_sleep_ms))
    /\ sleep_time_ms' = SleepTime(backlog_time')
    /\ spc' = "logic"
    /\ UNCHANGED elapsed_nsecs
    /\ SchedOnly

NextSched == SchedTick \/ SchedSleep

SpecSched == InitSched /\ [][NextSched]_vars

(***************************************************************************)
(* pipeline::clamp_value applied to the drawn inputs.                      *)
(***************************************************************************)

ClampOnly == UNCHANGED <<bitsVars, schedVars, relVars, pipeVars, centerVars, rtVars>>

InitClamp ==
    /\ IdleBits
    /\ IdleSched /\ IdleCenter /\ IdleRt
    /\ cvpc = "call"
    /\ cv_in \in ClampInputs
    /\ cv_out = ZeroPose
    /\ IdleRel
    /\ IdlePipe

\* value = clamp_value(value)
ClampCall ==
    /\ cvpc = "call"
    /\ cv_out' = clamp_value(cv_in)
    /\ cvpc' = "ret"
    /\ UNCHANGED cv_in
    /\ ClampOnly

NextClamp == ClampCall

SpecClamp == InitClamp /\ [][NextClamp]_vars

(***************************************************************************)
(* reltrans::apply_pipeline called again and again on one reltrans object. *)
(***************************************************************************)

RelOnly == UNCHANGED <<bitsVars, schedVars, clampVars, pipeVars, centerVars, rtVars>>

InitRel == IdleBits /\ IdleSched /\ IdleCenter /\ IdleRt /\ IdleClamp /\ IdleRel /\ IdlePipe

\* dt milliseconds after the previous call:
\* value = rel.apply_pipeline(mode, value, disable)
RelCall ==
    /\ rl_calls < MaxRelCalls
    /\ \E mode \in RelModes, value \in RelPoses, disable \in RelDisables, dt \in RelDts :
           LET st == [cur |-> cur, in_zone |-> in_zone, interp_pos |-> interp_pos,
                      timer |-> interp_timer + dt]
               r == apply_pipeline(st, mode, value, disable)
           IN /\ cur' = r.cur
              /\ in_zone' = r.in_zone
              /\ interp_pos' = r.interp_pos
              /\ interp_timer' = r.timer
              /\ rl_mode' = mode
              /\ rl_in' = value
              /\ rl_out' = r.out
              /\ rl_pre' = [cur |-> cur, in_zone |-> in_zone, interp_pos |-> interp_pos]
              /\ rl_started' = r.started
              /\ rl_zone' = IF mode = "reltrans_disabled"
                            THEN rl_zone
                            ELSE IF ZoneOf(mode, value) THEN "in" ELSE "out"
    /\ rl_calls' = rl_calls + 1
    /\ RelOnly

NextRel == RelCall

SpecRel == InitRel /\ [][NextRel]_vars

\* ---------------------------------------------------------------------------
\* pipeline::apply_reltrans: the settings handed to reltrans::apply_pipeline
\* ---------------------------------------------------------------------------

RtOnly == UNCHANGED <<bitsVars, schedVars, clampVars, relVars, pipeVars, centerVars>>

\* the six reltrans_disable_* settings
RtSettings ==
    [src_yaw : BOOLEAN, src_pitch : BOOLEAN, src_roll : BOOLEAN,
     tx : BOOLEAN, ty : BOOLEAN, tz : BOOLEAN]

\* the vec6_bool apply_reltrans builds, in the order of its initializer list
reltrans_disable_vec(set) ==
    <<set.src_yaw, set.src_pitch, set.src_roll, set.tx, set.ty, set.tz>>

\* the poses apply_reltrans is called with
RtPoses == RelPoses \cup {<<20, 30, 0, Deg(90), Deg(90), Deg(90)>>}

\* the reltrans members of a pipeline that made no call yet
RelFresh == [cur |-> FALSE, in_zone |-> FALSE, interp_pos |-> Vec3Zero, timer |-> 0]

\* for (k < 6) if (disabled(k)) value(k) = 0
ZeroDisabled(value, disabled) == [k \in 1 .. 6 |-> IF disabled[k] THEN 0 ELSE value[k]]

InitRt ==
    /\ IdleBits /\ IdleSched /\ IdleCenter /\ IdleClamp /\ IdleRel /\ IdlePipe
    /\ rt_pc = "call"
    /\ rt_set \in RtSettings
    /\ rt_in \in RtPoses
    /\ rt_angles = Vec3Zero
    /\ rt_mask = NoMask3
    /\ rt_out = ZeroPose

\* pipeline::apply_reltrans(value, disabled) with the neck disabled; rt_pc
\* tells whether the call built the compensation rotation
RtCall ==
    /\ rt_pc = "call"
    /\ \E mode \in RelModes, disabled \in RelDisables :
           LET disable == reltrans_disable_vec(rt_set)
               r == apply_pipeline(RelFresh, mode, rt_in, disable)
               rotated == mode # "reltrans_disabled" /\ ZoneOf(mode, rt_in)
           IN /\ rt_pc' = IF rotated THEN "ret" ELSE "skip"
              /\ rt_angles' = IF rotated THEN RelAngles(rt_in, disable) ELSE rt_angles
              /\ rt_mask' = IF rotated THEN RelMask(disable) ELSE rt_mask
              /\ rt_out' = ZeroDisabled(r.out, disabled)
    /\ UNCHANGED <<rt_set, rt_in>>
    /\ RtOnly

NextRt == RtCall

SpecRt == InitRt /\ [][NextRt]_vars

(***************************************************************************)
(* The worker thread (pipeline::run calling pipeline::logic), a thread     *)
(* calling raw_and_mapped_pose, and the control thread.  Every access to   *)
(* the flag word or to the mutex is a step of its own; bits::set and       *)
(* bits::negate are taken as atomic here (SpecBits is about their loops).  *)
(***************************************************************************)

PipeOnly == UNCHANGED <<bitsVars, schedVars, clampVars, relVars, centerVars, rtVars>>

InitPipe ==
    /\ IdleBits /\ IdleSched /\ IdleCenter /\ IdleRt /\ IdleClamp /\ IdleRel
    /\ \E c \in Configs : PipeStart(c)

\* the worker's variables nobody else writes
workerLocals ==
    <<newpose, tracking_started, t_center, rot_center, l_value, l_raw, l_tmp, l_own_center, l_center_ordered,
      l_en_p, ticks, log_line, tick_nan, prev_output, sink, curve_active>>

snapshot == <<output_pose, raw_6dof, out_tick, raw_tick>>

readerVars == <<rpc, rd_raw, rd_mapped>>

\* while (!isInterruptionRequested()): the test holds, logic() is entered
RunEnterTick ==
    /\ wpc = "r_top"
    /\ RunLoopTest(interrupted)
    /\ ticks < MaxTicks
    /\ ticks' = ticks + 1
    /\ log_line' = <<"dt">>
    /\ tick_nan' = FALSE
    /\ prev_output' = output_pose
    /\ wpc' = "l_center"
    /\ UNCHANGED <<flags, mtx, snapshot, newpose, tracking_started, t_center,
                   rot_center, l_value, l_raw, l_tmp, l_own_center, l_center_ordered,
                   l_en_p, sink, interrupted, curve_active, readerVars, ctl_ops, cfg,
                   center_req>>
    /\ PipeOnly

\* the test fails: leave the loop
RunLeaveLoop ==
    /\ wpc = "r_top"
    /\ ~RunLoopTest(interrupted)
    /\ wpc' = "r_final_pose"
    /\ UNCHANGED <<flags, mtx, snapshot, workerLocals, interrupted, readerVars,
                   ctl_ops, cfg, center_req>>
    /\ PipeOnly

\* center_ordered = get(f_center) && tracking_started;
\* own_center_logic = center_ordered && libs.pTracker->center();
LogicCenterOrdered ==
    /\ wpc = "l_center"
    /\ l_center_ordered' = (GetFlag(flags, f_center) /\ tracking_started)
    /\ IF l_center_ordered'
       THEN l_own_center' \in BOOLEAN
       ELSE l_own_center' = FALSE
    /\ wpc' = "l_data"
    /\ UNCHANGED <<flags, mtx, snapshot, newpose, tracking_started, t_center,
                   rot_center, l_value, l_raw, l_tmp, l_en_p, ticks, log_line,
                   tick_nan, prev_output, sink, interrupted, curve_active, readerVars,
                   ctl_ops, cfg, center_req>>
    /\ PipeOnly

\* libs.pTracker->data(tmp); nan_check(tmp); then the first operand of
\* get(f_enabled_p) ^ !get(f_enabled_h)
LogicData ==
    /\ wpc = "l_data"
    /\ \E tmp \in TrackerData :
           IF is_nan(tmp)
           THEN /\ tick_nan' = TRUE
                /\ wpc' = "l_nan_lock"
                /\ UNCHANGED <<l_tmp, l_en_p>>
           ELSE /\ l_tmp' = tmp.v
                /\ l_en_p' = GetFlag(flags, f_enabled_p)
                /\ wpc' = "l_en_h"
                /\ UNCHANGED tick_nan
    /\ UNCHANGED <<flags, mtx, snapshot, newpose, tracking_started, t_center, rot_center, l_value,
                   l_raw, l_own_center, l_center_ordered, ticks, log_line, prev_output, sink, interrupted,
                   curve_active, readerVars, ctl_ops, cfg, center_req>>
    /\ PipeOnly

\* the second operand; newpose(i) = tmp(i) when the test holds; then
\* get_selected_axis_value and clamp_value
LogicNewpose ==
    /\ wpc = "l_en_h"
    /\ newpose' = IF EnabledTest(l_en_p, GetFlag(flags, f_enabled_h))
                  THEN l_tmp
                  ELSE newpose
    /\ l_raw' = newpose'
    /\ l_value' = SelectedValue(cfg, newpose')
    /\ log_line' = Append(log_line, "raw")
    /\ wpc' = "l_started"
    /\ UNCHANGED <<flags, mtx, snapshot, tracking_started, t_center, rot_center,
                   l_tmp, l_own_center, l_center_ordered, l_en_p, ticks, tick_nan,
                   prev_output, sink, interrupted, curve_active, readerVars, ctl_ops,
                   cfg, center_req>>
    /\ PipeOnly

\* maybe_enable_center_on_tracking_started (s.center_at_startup set)
LogicTrackingStarted ==
    /\ wpc = "l_started"
    /\ tracking_started' = (tracking_started \/ newpose # 0)
    /\ flags' = IF ~tracking_started /\ tracking_started'
                THEN SetWord(flags, f_center, TRUE)
                ELSE flags
    /\ wpc' = "l_set_center"
    /\ UNCHANGED <<mtx, snapshot, newpose, t_center, rot_center, l_value, l_raw, l_tmp,
                   l_own_center, l_center_ordered, l_en_p, ticks, log_line, tick_nan, prev_output, sink,
                   interrupted, curve_active, readerVars, ctl_ops, cfg, center_req>>
    /\ PipeOnly

\* maybe_set_center_pose, apply_center, maybe_apply_filter and its
\* nan_check, map, apply_reltrans, map and the last nan_check
LogicCenterFilterMap ==
    /\ wpc = "l_set_center"
    /\ t_center' = IF GetFlag(flags, f_center)
                   THEN CenterPose(t_center, l_value, l_own_center)
                   ELSE t_center
    /\ rot_center' = IF GetFlag(flags, f_center)
                     THEN CenterRot(rot_center, l_value, l_own_center)
                     ELSE rot_center
    /\ center_req' = (center_req /\ ~GetFlag(flags, f_center))
    /\ LET centered == apply_center(cfg, t_center', l_value)
       IN \E filtered \in Collaborator(centered) :
              IF is_nan(filtered)
              THEN /\ tick_nan' = TRUE
                   /\ log_line' = log_line \o <<"corrected">>
                   /\ wpc' = "l_nan_lock"
                   /\ UNCHANGED <<l_value, curve_active>>
              ELSE LET moved == apply_reltrans(cfg, filtered.v)
                   IN \E mapped \in Collaborator(moved) :
                          /\ curve_active' = MapMarks(moved)
                          /\ log_line' = log_line \o <<"corrected", "filtered">>
                          /\ IF is_nan(mapped)
                             THEN /\ tick_nan' = TRUE
                                  /\ wpc' = "l_nan_lock"
                                  /\ UNCHANGED l_value
                             ELSE /\ l_value' = mapped.v
                                  /\ wpc' = "l_clear"
                                  /\ UNCHANGED tick_nan
    /\ UNCHANGED <<flags, mtx, snapshot, newpose, tracking_started, l_raw, l_tmp,
                   l_own_center, l_center_ordered, l_en_p, ticks, prev_output, sink,
                   interrupted, readerVars, ctl_ops, cfg>>
    /\ PipeOnly

\* nan: QMutexLocker foo(&mtx);
LogicNanLock ==
    /\ wpc = "l_nan_lock"
    /\ MutexFree(mtx)
    /\ mtx' = "worker"
    /\ wpc' = "l_nan_copy"
    /\ UNCHANGED <<flags, snapshot, workerLocals, interrupted, readerVars, ctl_ops, cfg, center_req>>
    /\ PipeOnly

\* value = output_pose; raw = raw_6dof;
LogicNanCopy ==
    /\ wpc = "l_nan_copy"
    /\ l_value' = output_pose
    /\ l_raw' = raw_6dof
    /\ wpc' = "l_nan_map"
    /\ UNCHANGED <<flags, mtx, snapshot, newpose, tracking_started, t_center, rot_center, l_tmp,
                   l_own_center, l_center_ordered, l_en_p, ticks, log_line, tick_nan, prev_output, sink,
                   interrupted, curve_active, readerVars, ctl_ops, cfg, center_req>>
    /\ PipeOnly

\* (void)map(raw_6dof(i), m(i)); and the end of the locker's block
LogicNanMap ==
    /\ wpc = "l_nan_map"
    /\ curve_active' = MapMarks(raw_6dof)
    /\ mtx' = "free"
    /\ wpc' = "l_clear"
    /\ UNCHANGED <<flags, snapshot, newpose, tracking_started, t_center, rot_center, l_value,
                   l_raw, l_tmp, l_own_center, l_center_ordered, l_en_p, ticks, log_line, tick_nan, prev_output,
                   sink, interrupted, readerVars, ctl_ops, cfg, center_req>>
    /\ PipeOnly

\* ok: set(f_center, false);
LogicClearCenter ==
    /\ wpc = "l_clear"
    /\ flags' = SetWord(flags, f_center, FALSE)
    /\ wpc' = "l_zero"
    /\ UNCHANGED <<mtx, snapshot, workerLocals, interrupted, readerVars, ctl_ops, cfg, center_req>>
    /\ PipeOnly

\* if (get(f_zero)) value = 0; value = apply_zero_pos(value);
\* libs.pProtocol->pose(value);
LogicOutput ==
    /\ wpc = "l_zero"
    /\ l_value' = apply_zero_pos(cfg, IF GetFlag(flags, f_zero) THEN 0 ELSE l_value)
    /\ sink' = <<l_value'>>
    /\ wpc' = "l_out_lock"
    /\ UNCHANGED <<flags, mtx, snapshot, newpose, tracking_started, t_center, rot_center, l_raw,
                   l_tmp, l_own_center, l_center_ordered, l_en_p, ticks, log_line, tick_nan, prev_output,
                   interrupted, curve_active, readerVars, ctl_ops, cfg, center_req>>
    /\ PipeOnly

\* QMutexLocker foo(&mtx);
LogicOutLock ==
    /\ wpc = "l_out_lock"
    /\ MutexFree(mtx)
    /\ mtx' = "worker"
    /\ wpc' = "l_out_pose"
    /\ UNCHANGED <<flags, snapshot, workerLocals, interrupted, readerVars, ctl_ops, cfg, center_req>>
    /\ PipeOnly

\* output_pose = value;
LogicStorePose ==
    /\ wpc = "l_out_pose"
    /\ output_pose' = l_value
    /\ out_tick' = ticks
    /\ wpc' = "l_out_raw"
    /\ UNCHANGED <<flags, mtx, raw_6dof, raw_tick, workerLocals, interrupted,
                   readerVars, ctl_ops, cfg, center_req>>
    /\ PipeOnly

\* raw_6dof = raw;
LogicStoreRaw ==
    /\ wpc = "l_out_raw"
    /\ raw_6dof' = l_raw
    /\ raw_tick' = ticks
    /\ wpc' = "l_log"
    /\ UNCHANGED <<flags, mtx, output_pose, out_tick, workerLocals, interrupted,
                   readerVars, ctl_ops, cfg, center_req>>
    /\ PipeOnly

\* logger.write_pose(value); logger.reset_dt(); logger.next_line(); and the
\* end of logic(), which releases the mutex and ends the life of the locals
LogicLogReturn ==
    /\ wpc = "l_log"
    /\ mtx' = "free"
    /\ log_line' = <<>>
    /\ l_value' = PoseDefault
    /\ l_raw' = PoseDefault
    /\ l_tmp' = PoseDefault
    /\ l_own_center' = FALSE
    /\ l_center_ordered' = FALSE
    /\ l_en_p' = FALSE
    /\ tick_nan' = FALSE
    /\ prev_output' = PoseDefault
    /\ wpc' = "r_sleep"
    /\ UNCHANGED <<flags, snapshot, newpose, tracking_started, t_center, rot_center,
                   ticks, sink, curve_active, interrupted, readerVars, ctl_ops, cfg,
                   center_req>>
    /\ PipeOnly

\* the rest of the loop body: portable::sleep(sleep_time_ms) returns
RunSleep ==
    /\ wpc = "r_sleep"
    /\ wpc' = "r_top"
    /\ UNCHANGED <<flags, mtx, snapshot, workerLocals, interrupted, readerVars,
                   ctl_ops, cfg, center_req>>
    /\ PipeOnly

\* Pose p; libs.pProtocol->pose(p);
RunFinalPose ==
    /\ wpc = "r_final_pose"
    /\ sink' = <<PoseDefault>>
    /\ wpc' = "r_deactivate"
    /\ UNCHANGED <<flags, mtx, snapshot, newpose, tracking_started, t_center, rot_center, l_value,
                   l_raw, l_tmp, l_own_center, l_center_ordered, l_en_p, ticks, log_line, tick_nan, prev_output,
                   interrupted, curve_active, readerVars, ctl_ops, cfg, center_req>>
    /\ PipeOnly

\* set_tracking_active(false) on both curves of every axis; run() returns
RunDeactivate ==
    /\ wpc = "r_deactivate"
    /\ curve_active' = CurvesInactive
    /\ wpc' = "done"
    /\ UNCHANGED <<flags, mtx, snapshot, newpose, tracking_started, t_center, rot_center, l_value,
                   l_raw, l_tmp, l_own_center, l_center_ordered, l_en_p, ticks, log_line, tick_nan, prev_output,
                   sink, interrupted, readerVars, ctl_ops, cfg, center_req>>
    /\ PipeOnly

WorkerNext ==
    \/ RunEnterTick
    \/ RunLeaveLoop
    \/ LogicCenterOrdered
    \/ LogicData
    \/ LogicNewpose
    \/ LogicTrackingStarted
    \/ LogicCenterFilterMap
    \/ LogicNanLock
    \/ LogicNanCopy
    \/ LogicNanMap
    \/ LogicClearCenter
    \/ LogicOutput
    \/ LogicOutLock
    \/ LogicStorePose
    \/ LogicStoreRaw
    \/ LogicLogReturn
    \/ RunSleep
    \/ RunFinalPose
    \/ RunDeactivate

\* raw_and_mapped_pose: QMutexLocker foo(&mtx);
ReaderLock ==
    /\ rpc = "idle"
    /\ MutexFree(mtx)
    /\ mtx' = "reader"
    /\ rpc' = "rd_raw"
    /\ UNCHANGED <<flags, snapshot, workerLocals, wpc, interrupted, rd_raw, rd_mapped, ctl_ops, cfg, center_req>>
    /\ PipeOnly

\* raw[i] = raw_6dof(i);
ReaderCopyRaw ==
    /\ rpc = "rd_raw"
    /\ rd_raw' = [v |-> raw_6dof, tick |-> raw_tick]
    /\ rpc' = "rd_mapped"
    /\ UNCHANGED <<flags, mtx, snapshot, workerLocals, wpc, interrupted, rd_mapped, ctl_ops, cfg, center_req>>
    /\ PipeOnly

\* mapped[i] = output_pose(i);
ReaderCopyMapped ==
    /\ rpc = "rd_mapped"
    /\ rd_mapped' = [v |-> output_pose, tick |-> out_tick]
    /\ rpc' = "rd_ret"
    /\ UNCHANGED <<flags, mtx, snapshot, workerLocals, wpc, interrupted, rd_raw,
                   ctl_ops, cfg, center_req>>
    /\ PipeOnly

\* the return, which releases the mutex; the caller's arrays are not
\* followed any further
ReaderReturn ==
    /\ rpc = "rd_ret"
    /\ mtx' = "free"
    /\ rd_raw' = NoRead
    /\ rd_mapped' = NoRead
    /\ rpc' = "idle"
    /\ UNCHANGED <<flags, snapshot, workerLocals, wpc, interrupted, ctl_ops, cfg,
                   center_req>>
    /\ PipeOnly

ReaderNext == ReaderLock \/ ReaderCopyRaw \/ ReaderCopyMapped \/ ReaderReturn

\* set_center, set_enabled, set_zero, toggle_zero, toggle_enabled
ControlCall ==
    /\ ctl_ops < MaxCtlOps
    /\ \E op \in CtlOps :
           /\ flags' = NewWord(op, flags)
           /\ center_req' = (center_req \/ op = SetCenterOp)
    /\ ctl_ops' = ctl_ops + 1
    /\ UNCHANGED <<mtx, snapshot, workerLocals, wpc, interrupted, readerVars, cfg>>
    /\ PipeOnly

\* pipeline::~pipeline: requestInterruption()
RequestInterruption ==
    /\ ~interrupted
    /\ interrupted' = TRUE
    /\ UNCHANGED <<flags, mtx, snapshot, workerLocals, wpc, readerVars, ctl_ops, cfg, center_req>>
    /\ PipeOnly

NextPipe == WorkerNext \/ ReaderNext \/ ControlCall \/ RequestInterruption

SpecPipe == InitPipe /\ [][NextPipe]_vars

\* The worker thread and a reader while the destructor runs.  The control
\* thread's calls write only the flag word, which run() does not read between
\* the loop test and the end of the function.
NextShutdown == WorkerNext \/ ReaderNext \/ RequestInterruption

\* QThread keeps scheduling the worker, a reader that holds the mutex runs on
\* to the return that releases it, and a worker waiting in QMutex::lock gets
\* the mutex when readers keep releasing it.
SpecShutdown ==
    /\ InitPipe
    /\ [][NextShutdown]_vars
    /\ WF_vars(WorkerNext)
    /\ SF_vars(LogicOutLock)
    /\ SF_vars(LogicNanLock)
    /\ WF_vars(ReaderCopyRaw \/ ReaderCopyMapped \/ ReaderReturn)

\* The worker and a reader, started after set_enabled and toggle_enabled
\* calls have left any combination of the two enabled flags.
InitEnabled ==
    /\ IdleBits /\ IdleSched /\ IdleCenter /\ IdleRt /\ IdleClamp /\ IdleRel
    /\ \E c \in Configs, w \in EnabledWords : PipeStartFlags(c, w)

SpecEnabled == InitEnabled /\ [][NextShutdown]_vars

(***************************************************************************)
(* One centering: maybe_set_center_pose(value, own_center_logic) and the   *)
(* apply_center(value) that follows it in logic().                         *)
(***************************************************************************)

CenterOnly == UNCHANGED <<bitsVars, schedVars, clampVars, relVars, pipeVars, rtVars>>

InitCenter ==
    /\ IdleBits /\ IdleSched /\ IdleClamp /\ IdleRel /\ IdlePipe /\ IdleRt
    /\ cn_pc = "call"
    /\ cn_in \in RelPoses
    /\ cn_flag \in BOOLEAN
    /\ cn_own \in BOOLEAN
    /\ cn_inv \in CenterInverts
    /\ cn_frame = CenterFrameStart
    /\ cn_out = CenterOutStart

\* maybe_set_center_pose(value, own_center_logic);
CenterSet ==
    /\ cn_pc = "call"
    /\ cn_frame' = maybe_set_center_pose(cn_frame, cn_in, cn_flag, cn_own)
    /\ cn_pc' = "set"
    /\ UNCHANGED <<cn_in, cn_flag, cn_own, cn_inv, cn_out>>
    /\ CenterOnly

\* value = apply_center(value);
CenterApply ==
    /\ cn_pc = "set"
    /\ cn_out' = apply_center_pose(cn_frame, cn_in, cn_inv)
    /\ cn_pc' = "ret"
    /\ UNCHANGED <<cn_in, cn_flag, cn_own, cn_inv, cn_frame>>
    /\ CenterOnly

NextCenter == CenterSet \/ CenterApply

SpecCenter == InitCenter /\ [][NextCenter]_vars

(***************************************************************************)
(* The claims.                                                             *)
(***************************************************************************)

\* C1: for any interleaving of set and negate calls from different threads,
\* every flag of the word equals the result of applying the calls that
\* targeted it in the order their compare-and-swaps succeeded, and a flag no
\* call targeted keeps its value (no lost update, no corrupted bit).
C1_NoLostUpdate ==
    /\ b \in FlagWords
    /\ \A f \in Flags : GetFlag(b, f) = ideal[f]

\* C1 witness: both threads were inside a call at once, one of them with a
\* stale copy of the word, and the word has moved on.
C1_Witness ==
    /\ bpc["control"] = "cas"
    /\ bpc["worker"] = "cas"
    /\ b_["control"] # b
    /\ bop["control"].flag # bop["worker"].flag

\* C2: with no concurrent writer, after set(F, v) returns get(F) = v and
\* every other flag is as it was before the call.
C2_SetThenGet ==
    (bpc["control"] = "idle" /\ bret.kind = "set") =>
        /\ GetFlag(b, bret.flag) = bret.val
        /\ \A g \in Flags \ {bret.flag} : GetFlag(b, g) = GetFlag(bpre, g)

\* C2 witness: set(F, false) has returned on a word in which F and another
\* flag were set.
C2_Witness ==
    /\ bpc["control"] = "idle"
    /\ bret.kind = "set"
    /\ ~bret.val
    /\ GetFlag(bpre, bret.flag)
    /\ \E g \in Flags \ {bret.flag} : GetFlag(bpre, g)

\* C5: in every iteration of the scheduler loop the duration passed to the
\* sleep call lies in [0 ms, 10 ms].
C5_SleepInRange == sleep_time_ms >= 0 /\ sleep_time_ms <= MaxSleepMs

\* C5 witness: a sleep computed from a backlog so negative that the unclamped
\* duration exceeds 10 ms; the sleep is the full 10 ms.
C5_Witness ==
    /\ spc = "logic"
    /\ Ms(const_sleep_ms) - backlog_time > Ms(MaxSleepMs)
    /\ sleep_time_ms = MaxSleepMs

C8_Original ==
    cvpc = "ret" => \A i \in Yaw .. Roll : cv_out[i] > Deg(-180) /\ cv_out[i] <= Deg(180)

\* C8 amended: every rotation channel returned by clamp_value lies in the
\* closed range [-180, 180] (-180 is returned for an input that reduces to
\* within 1e-2 of -180), the translation channels are returned unmodified,
\* and 181 gives -179, -185 gives 175, 720 gives 0.
C8_ClampRange ==
    cvpc = "ret" =>
        /\ \A i \in Yaw .. Roll :
               /\ cv_out[i] >= Deg(-180) /\ cv_out[i] <= Deg(180)
               /\ cv_in[i] = Deg(181) => cv_out[i] = Deg(-179)
               /\ cv_in[i] = Deg(-185) => cv_out[i] = Deg(175)
               /\ cv_in[i] = Deg(720) => cv_out[i] = 0
               /\ cv_in[i] = Deg(-180) => cv_out[i] = Deg(-180)
        /\ \A i \in TX .. TZ : cv_out[i] = cv_in[i]

\* C8 witness: a call whose yaw was re-wrapped, whose pitch came back as
\* -180 and whose translation is not zero.
C8_Witness ==
    /\ cvpc = "ret"
    /\ cv_in[Yaw] = Deg(181) /\ cv_out[Yaw] = Deg(-179)
    /\ cv_out[Pitch] = Deg(-180)
    /\ cv_in[TX] # 0

Translation(p) == <<p[TX], p[TY], p[TZ]>>

Rotation(p) == <<p[Yaw], p[Pitch], p[Roll]>>

\* C9 as stated: after a call of apply_pipeline with mode disabled the
\* interpolating flag is false, the last-zone flag is false and the
\* accumulated interpolated position is zero.
C9_Original ==
    rl_mode = "reltrans_disabled" =>
        /\ ~cur
        /\ ~in_zone
        /\ interp_pos = Vec3Zero

\* C9 amended: after a call of apply_pipeline with mode disabled the
\* interpolating flag is false and the last-zone flag is false; the
\* accumulated interpolated position is left as it was before the call, and
\* the pose is returned unmodified.
C9_DisabledClearsFlags ==
    rl_mode = "reltrans_disabled" =>
        /\ ~cur
        /\ ~in_zone
        /\ interp_pos = rl_pre.interp_pos
        /\ rl_out = rl_in

\* C9 witness: a disabled call made while an interpolation was active, in
\* the zone, with a non-zero interpolated position.
C9_Witness ==
    /\ rl_mode = "reltrans_disabled"
    /\ rl_pre.cur
    /\ rl_pre.in_zone
    /\ rl_pre.interp_pos # Vec3Zero

\* C10 as stated: every call with mode always-on and yaw = pitch = roll = 0
\* returns the input translation, in any reachable reltrans state.
C10_Original ==
    (rl_mode = "reltrans_enabled" /\ Rotation(rl_in) = Vec3Zero) =>
        Translation(rl_out) = Translation(rl_in)

\* C10 amended: a call with mode always-on and yaw = pitch = roll = 0 returns
\* the input translation when no interpolation is active in it, that is when
\* on entry the interpolating flag is false and the last zone is true; a call
\* that starts or continues an interpolation returns the blended interp_pos.
C10_IdentityWhenSettled ==
    (rl_mode = "reltrans_enabled" /\ Rotation(rl_in) = Vec3Zero) =>
        /\ (~rl_pre.cur /\ rl_pre.in_zone) => Translation(rl_out) = Translation(rl_in)
        /\ (rl_pre.cur \/ ~rl_pre.in_zone) => Translation(rl_out) = interp_pos

\* C10 witness: such a call on a settled state with a translation of which
\* every nonzero channel differs from the interpolated position before it.
C10_Witness ==
    /\ rl_mode = "reltrans_enabled"
    /\ Rotation(rl_in) = Vec3Zero
    /\ ~rl_pre.cur
    /\ rl_pre.in_zone
    /\ rl_in[TX] # 0
    /\ rl_pre.interp_pos # Translation(rl_in)

\* C3: raw_and_mapped_pose never returns a partially written snapshot: the
\* raw and the mapped pose it returns were stored together by one tick (or
\* are the initial pair).
C3_SnapshotWhole ==
    rpc = "rd_ret" =>
        /\ rd_raw.tick = rd_mapped.tick
        /\ rd_raw.tick <= ticks

\* C3 witness: the reader is in the middle of its copy, holding the mutex,
\* while the worker of a later tick waits to store its output.
C3_Witness ==
    /\ rpc = "rd_mapped"
    /\ wpc = "l_out_lock"
    /\ rd_raw.tick > 0
    /\ ticks > rd_raw.tick

\* C4: in a tick in which a NaN check failed, the pose given to the protocol
\* sink and stored as the output snapshot equals the output of the previous
\* tick.
C4_NanKeepsOutput ==
    (wpc = "l_log" /\ tick_nan /\ ticks >= 2) =>
        /\ output_pose = prev_output
        /\ sink = <<prev_output>>

\* C7: the interruption request is acted on only at the top of the loop, a
\* requested interruption leads to the exit of the loop, after which no tick
\* starts, the last pose given to the sink is the zero pose and both curves
\* are marked tracking-inactive.
C7_OrderlyShutdown ==
    /\ [][(wpc' = "r_final_pose" /\ wpc # "r_final_pose")
              => (wpc = "r_top" /\ interrupted)]_vars
    /\ [][wpc = "done"
              => (wpc' = "done" /\ ticks' = ticks /\ sink' = sink
                    /\ curve_active' = curve_active)]_vars
    /\ [](wpc = "done" => (sink = <<PoseDefault>> /\ curve_active = CurvesInactive))
    /\ (interrupted ~> wpc = "done")

\* C7 witness: the loop has exited after an interruption requested in the
\* middle of a tick whose output was not zero.
C7_Witness ==
    /\ wpc = "done"
    /\ interrupted
    /\ ticks > 0
    /\ output_pose # PoseDefault
    /\ out_tick = ticks

\* C11: when maybe_set_center_pose runs with the centering flag set and
\* own_center_logic false on a pose, the apply_center of the same pose that
\* follows returns zero translation and zero rotation, for every pose and
\* every invert setting.
C11_CenterGivesZero ==
    (cn_pc = "ret" /\ cn_flag /\ ~cn_own) =>
        cn_out = [pos |-> Vec3Zero, rot |-> Vec3Zero, exact |-> TRUE]

\* C11 witness: such a centering on a pose with a translation and a rotation
\* that are not zero, an axis of each inverted.
C11_Witness ==
    /\ cn_pc = "ret"
    /\ cn_flag
    /\ ~cn_own
    /\ cn_in[TX] # 0
    /\ cn_in[Yaw] # 0
    /\ cn_inv[TX]
    /\ cn_inv[Yaw]

\* C12: t_center and the two rot_center change only in the step that runs
\* maybe_set_center_pose with the centering flag set, and that step writes
\* all three from the pose of the tick: zero and two identities when the
\* device centers by itself, else the translation and the two transposes.
C12_FrameStable ==
    [][/\ (t_center' # t_center \/ rot_center' # rot_center)
            => (wpc = "l_set_center" /\ GetFlag(flags, f_center))
       /\ (wpc = "l_set_center" /\ wpc' # wpc /\ GetFlag(flags, f_center))
            => IF l_own_center
               THEN /\ t_center' = PoseDefault
                    /\ rot_center' = [real |-> RotEye, scaled |-> RotEye]
               ELSE /\ t_center' = l_value
                    /\ rot_center' = [real |-> RotTransposeOf(l_value),
                                      scaled |-> RotTransposeOf(l_value)]]_vars

\* C12 witness: a tick cut short by a NaN check, after a tick that centered
\* on a pose that is not zero.
C12_Witness ==
    /\ wpc = "l_clear"
    /\ tick_nan
    /\ ticks >= 2
    /\ t_center # PoseDefault
    /\ rot_center.real = RotTransposeOf(t_center)

\* C13: the worker holds the mutex only while copying the snapshot fields,
\* never while evaluating a curve or calling the logger.
C13_LockOnlyForCopy ==
    mtx = "worker" => wpc \in {"l_nan_copy", "l_out_pose", "l_out_raw"}

\* C14: every tick writes one logger line of the dt column and the four
\* poses raw, corrected, filtered, mapped, as the header names them.
C14_FullLogLine ==
    wpc = "l_log" => Append(log_line, "mapped") = LogHeader

\* C17: when the centering branch of maybe_set_center_pose executes, the
\* tracker's center() was consulted in the same tick (center_ordered held).
C17_TrackerConsulted ==
    (wpc = "l_set_center" /\ GetFlag(flags, f_center)) => l_center_ordered

\* C19: a set_center() call that no centering branch has acted on yet still
\* has its flag set: the flag is not cleared before the request is served.
C19_RequestKept ==
    center_req => GetFlag(flags, f_center)

\* C20: in a tick that passes the raw NaN check, newpose is overwritten with
\* the tracker sample if and only if the two enabled flags read equal; else
\* it is left unchanged; the tick goes on with the pose held then.
C20_EnabledGate ==
    [][(wpc = "l_en_h" /\ wpc' # wpc)
          => /\ newpose' = IF l_en_p = GetFlag(flags, f_enabled_h)
                           THEN l_tmp
                           ELSE newpose
             /\ l_raw' = newpose'
             /\ l_value' = SelectedValue(cfg, newpose')]_vars

\* C20 witness: both flags read clear and the held pose was overwritten with
\* a sample that is not zero.
C20_Witness ==
    /\ wpc = "l_started"
    /\ ~l_en_p
    /\ ~GetFlag(flags, f_enabled_h)
    /\ l_tmp # PoseDefault
    /\ newpose = l_tmp

\* the modes other than reltrans_disabled
RelOn == {"reltrans_enabled", "reltrans_non_center"}

\* a call in a non-disabled mode starts an interpolation exactly when no
\* interpolation is active and the zone of the call differs from the last
\* recorded zone; a start restarts the timer and takes the interpolation step
\* in the same call; cur does not go from false to true without a start
C15_StartRule ==
    rl_mode \in RelOn =>
        /\ rl_started <=> (~rl_pre.cur /\ rl_pre.in_zone # ZoneOf(rl_mode, rl_in))
        /\ rl_started =>
               /\ interp_timer = 0
               /\ interp_pos = rl_pre.interp_pos
               /\ Translation(rl_out) = interp_pos
        /\ (~rl_pre.cur /\ cur) => rl_started

\* C15 as stated: the start rule, and the last-zone flag always equals the
\* zone computed by the most recent non-disabled call.
C15_Original ==
    /\ C15_StartRule
    /\ rl_zone # "none" => (in_zone <=> rl_zone = "in")

\* C15 amended: the start rule; after a non-disabled call the last-zone flag
\* equals the zone that call computed, and a disabled call resets it to false
\* whatever the most recent non-disabled call computed.
C15_ZoneOfLastCall ==
    /\ C15_StartRule
    /\ rl_mode \in RelOn => (in_zone <=> ZoneOf(rl_mode, rl_in))
    /\ rl_mode = "reltrans_disabled" => ~in_zone

\* C15 witness: a non-disabled call outside the zone, made with no
\* interpolation active and the last zone true, which started one.
C15_Witness ==
    /\ rl_mode = "reltrans_non_center"
    /\ ~rl_pre.cur
    /\ rl_pre.in_zone
    /\ ~in_zone
    /\ rl_started
    /\ cur

\* the residual rel - interp_pos summed over the three axes
Residual(rel, ip) == Abs(rel[1] - ip[1]) + Abs(rel[2] - ip[2]) + Abs(rel[3] - ip[3])

C18_SrcSettingsZeroAngles ==
    rt_pc = "ret" =>
        /\ rt_angles[1] = (IF rt_set.src_yaw THEN 0 ELSE rt_in[Yaw])
        /\ rt_angles[2] = (IF rt_set.src_pitch THEN 0 ELSE rt_in[Pitch])
        /\ rt_angles[3] = (IF rt_set.src_roll THEN 0 ELSE rt_in[Roll])
        /\ rt_mask = NoMask3

====
